---- MODULE Spec2Model ----
(***************************************************************************)
(* A model of the `lolwut` canvas library (src/src/lib.rs): the pixel      *)
(* buffer with its bounds-checked addressing, the Bresenham line loop,     *)
(* the rotated square, the Schotter composition and the Braille renderer.  *)
(*                                                                         *)
(* Target assumptions: usize and isize are 64 bits wide, so the only       *)
(* arithmetic of the library that can leave its type is the u32 product    *)
(* in `create`, the `as i32` casts of the dimensions and the i32 product   *)
(* `2 * console_cols`.  TLC's integers are 32-bit, so a u32 is kept as     *)
(* four base-256 limbs (least significant first) and an f32 as an odd      *)
(* 24-bit mantissa with a binary exponent.                                 *)
(***************************************************************************)
EXTENDS Integers, Sequences, FiniteSets, TLC

VARIABLES
    pc,              \* "start" (no canvas yet), "ready", "line" (inside draw_line's loop), "panic"
    canvas,          \* the Canvas: [pixels, width, height]
    req,             \* the <<width, height>> (u32 limbs) that create was called with
    op,              \* the last call: [name, a] with a the tuple of its arguments
    ret,             \* what the last call returned
    ln               \* draw_line's locals while pc = "line" (and of the last line afterwards)

vars == <<pc, canvas, req, op, ret, ln>>

----------------------------------------------------------------------------
(* Bounds of the model. *)

\* Largest width and height `create` is called with in Spec and SpecPixel (beside the
\* wide samples).
MaxDim == 2
\* Coordinates handed to get_pixel / draw_pixel range over -1 .. MaxCoord.
MaxCoord == 2
\* Widest and tallest canvas that Render is applied to.
MaxRenderSpan == 8
\* Largest width and height `create` is called with in SpecRender.
MaxRenderWidth == 3
MaxRenderHeight == 5
\* In SpecPixel and SpecRender a canvas differs from a cleared or a filled one in at
\* most MaxWrites pixels.
MaxWrites == 1
\* Largest width and height `create` is called with in SpecLine.
MaxLineWidth == 4
MaxLineHeight == 2
\* End points of the lines of SpecLine range over (-1 .. MaxLineX) x (-1 .. MaxLineY).
MaxLineX == 4
MaxLineY == 2
\* Longest side of a square that draw_schotter draws in the model.
MaxSide == 8
\* Largest width and height `create` is called with in SpecSchotter.
MaxSchotterDim == 4
\* console_cols ranges over 0 .. MaxCols (and 2^30), the square counts up to MaxSquares.
MaxCols == 3
MaxSquares == 2

----------------------------------------------------------------------------
(* Fixed-width integers. *)

\* 2^k for 0 <= k <= 30.
RECURSIVE Pow2(_)
Pow2(k) == IF k <= 0 THEN 1 ELSE 2 * Pow2(k - 1)

Abs(n) == IF n < 0 THEN -n ELSE n

\* A u32 as four base-256 limbs, least significant first; n is in 0 .. 2^31 - 1.
U32(n) == <<n % 256, (n \div 256) % 256, (n \div 65536) % 256, n \div 16777216>>

\* The u32 values 2^16 and 2^31, which `create` accepts like any other.
U32_65536 == <<0, 0, 1, 0>>
U32_2POW31 == <<0, 0, 0, 128>>

\* The eight limbs of the full 64-bit product of two u32 (schoolbook, with carries).
Product64(a, b) ==
    LET c1 == a[1] * b[1]
        c2 == a[1] * b[2] + a[2] * b[1] + (c1 \div 256)
        c3 == a[1] * b[3] + a[2] * b[2] + a[3] * b[1] + (c2 \div 256)
        c4 == a[1] * b[4] + a[2] * b[3] + a[3] * b[2] + a[4] * b[1] + (c3 \div 256)
        c5 == a[2] * b[4] + a[3] * b[3] + a[4] * b[2] + (c4 \div 256)
        c6 == a[3] * b[4] + a[4] * b[3] + (c5 \div 256)
        c7 == a[4] * b[4] + (c6 \div 256)
    IN  <<c1 % 256, c2 % 256, c3 % 256, c4 % 256,
          c5 % 256, c6 % 256, c7 % 256, c7 \div 256>>

\* `width * height` on u32: the product modulo 2^32 (what a release build computes).
wrapping_mul_u32(a, b) == SubSeq(Product64(a, b), 1, 4)

\* Whether the true product of two u32 leaves u32 (a debug build panics there).
mul_overflows_u32(a, b) == SubSeq(Product64(a, b), 5, 8) # <<0, 0, 0, 0>>

\* `v as i32`: the same 32 bits read as two's complement.
as_i32(u) ==
    IF u[4] >= 128
    THEN (u[4] - 256) * 16777216 + u[3] * 65536 + u[2] * 256 + u[1]
    ELSE u[4] * 16777216 + u[3] * 65536 + u[2] * 256 + u[1]

\* `v as usize`: the value itself (usize is wider); the model only allocates below 2^31.
as_usize(u) == u[4] * 16777216 + u[3] * 65536 + u[2] * 256 + u[1]

----------------------------------------------------------------------------
(* The Canvas and its pixel accessors. *)

\* The value of `canvas` before create has run: no buffer, no dimensions.
NoCanvas == [pixels |-> <<>>, width |-> 0, height |-> 0]

\* Option<usize>::None of `index`.
None == -1

\* A faulty index: the tests `0 <= x` and `0 <= y` are missing, so a negative
\* coordinate can address a pixel of another row.
index_unsigned(cv, x, y) ==
    IF x < cv.width /\ y < cv.height
    THEN LET i == x + y * cv.width
         IN  IF 0 <= i /\ i < Len(cv.pixels) THEN i ELSE None
    ELSE None

\* Canvas::index: the 0-based offset of (x, y) in the buffer, or None.
index(cv, x, y) ==
    IF 0 <= x /\ x < cv.width /\ 0 <= y /\ y < cv.height
    THEN LET i == x + y * cv.width
         IN  IF i < Len(cv.pixels) THEN i ELSE None
    ELSE None

\* Canvas::get_pixel
get_pixel(cv, x, y) ==
    IF index(cv, x, y) # None THEN cv.pixels[index(cv, x, y) + 1] ELSE 0

\* Canvas::draw_pixel: the canvas after the call.
draw_pixel(cv, x, y, color) ==
    IF index(cv, x, y) # None
    THEN [cv EXCEPT !.pixels[index(cv, x, y) + 1] = color]
    ELSE cv

\* ptr::write_bytes(&mut self.pixels[0], byte, self.pixels.len())
write_bytes(cv, byte) == [cv EXCEPT !.pixels = [i \in 1..Len(cv.pixels) |-> byte]]

----------------------------------------------------------------------------
(* Canvas::draw_line: the Bresenham loop. *)

\* A faulty set-up of the locals: sx is always 1, so a line towards smaller x walks away
\* from its end.
LineStart_forward(cv, x1, y1, x2, y2, color) ==
    [x |-> x1, y |-> y1, x2 |-> x2, y2 |-> y2,
     sx |-> 1,
     sy |-> IF y1 < y2 THEN 1 ELSE -1,
     dx |-> Abs(x2 - x1),
     dy |-> Abs(y2 - y1),
     err |-> Abs(x2 - x1) - Abs(y2 - y1),
     color |-> color,
     plotted |-> <<>>,
     entry |-> cv]

\* The locals of draw_line on entry to its loop (lines 157-166).  `plotted` and `entry`
\* are not locals of the code: they record the points handed to draw_pixel so far and
\* the canvas the call started from.
LineStart(cv, x1, y1, x2, y2, color) ==
    [x |-> x1, y |-> y1, x2 |-> x2, y2 |-> y2,
     sx |-> IF x1 < x2 THEN 1 ELSE -1,
     sy |-> IF y1 < y2 THEN 1 ELSE -1,
     dx |-> Abs(x2 - x1),
     dy |-> Abs(y2 - y1),
     err |-> Abs(x2 - x1) - Abs(y2 - y1),
     color |-> color,
     plotted |-> <<>>,
     entry |-> cv]

\* A faulty break test: `||` in place of `&&`.
LineAtEnd_either(st) == st.x = st.x2 \/ st.y = st.y2

\* `if x == x2 && y == y2 { break; }`
LineAtEnd(st) == st.x = st.x2 /\ st.y = st.y2

\* The rest of one iteration, after the break test (lines 172-180).
LineAdvance(st) ==
    LET e2 == 2 * st.err
        stepx == e2 > -st.dy
        stepy == e2 < st.dx
    IN  [st EXCEPT !.err = st.err - (IF stepx THEN st.dy ELSE 0) + (IF stepy THEN st.dx ELSE 0),
                   !.x = IF stepx THEN st.x + st.sx ELSE st.x,
                   !.y = IF stepy THEN st.y + st.sy ELSE st.y]

\* The locals after the draw_pixel call of one iteration.
LinePlot(st) == [st EXCEPT !.plotted = Append(st.plotted, <<st.x, st.y>>)]

\* The whole loop, run to its break: the canvas draw_line leaves.
RECURSIVE LineRun(_, _)
LineRun(cv, st) ==
    LET drawn == draw_pixel(cv, st.x, st.y, st.color)
    IN  IF LineAtEnd(st) THEN drawn ELSE LineRun(drawn, LineAdvance(st))

\* Canvas::draw_line: the canvas after the call.
draw_line(cv, x1, y1, x2, y2, color) ==
    LineRun(cv, LineStart(cv, x1, y1, x2, y2, color))

----------------------------------------------------------------------------
(* f32 arithmetic.  A finite f32 is [m, e], standing for m * 2^e, with m odd and
   |m| < 2^24, or m = 0 and e = 0.  Every operation computes the exact result and
   rounds it to 24 bits, ties to even, as IEEE 754 does.  The operands the model
   meets keep every intermediate below 2^31; subnormals, infinities and NaN do
   not arise (no division by zero: squares_per_row >= 1 in every sample). *)

I32_MAX == 2147483647
I32_MIN == -2147483647 - 1

\* m * 2^e with the factors of two moved from m to e.
RECURSIVE F32Canonical(_, _)
F32Canonical(m, e) ==
    IF m = 0 THEN [m |-> 0, e |-> 0]
    ELSE IF m % 2 = 0 THEN F32Canonical(m \div 2, e + 1)
    ELSE [m |-> m, e |-> e]

\* Number of bits of n >= 0.
RECURSIVE BitLen(_)
BitLen(n) == IF n = 0 THEN 0 ELSE 1 + BitLen(n \div 2)

\* The f32 nearest to the exact value mag * 2^e (mag >= 0), ties to even, with `sign`.
F32Round(sign, mag, e) ==
    IF BitLen(mag) <= 24 THEN F32Canonical(sign * mag, e)
    ELSE LET s == BitLen(mag) - 24
             q == mag \div Pow2(s)
             r == mag % Pow2(s)
             half == Pow2(s - 1)
             up == r > half \/ (r = half /\ q % 2 = 1)
         IN  F32Canonical(sign * (IF up THEN q + 1 ELSE q), e + s)

Sign(n) == IF n < 0 THEN -1 ELSE 1

\* `n as f32` for an i32.
f32_from_i32(n) ==
    IF n = I32_MIN THEN [m |-> -1, e |-> 31] ELSE F32Round(Sign(n), Abs(n), 0)

\* a + b
f32_add(a, b) ==
    IF a.m = 0 THEN b ELSE IF b.m = 0 THEN a
    ELSE LET e0 == IF a.e < b.e THEN a.e ELSE b.e
             sum == a.m * Pow2(a.e - e0) + b.m * Pow2(b.e - e0)
         IN  F32Round(Sign(sum), Abs(sum), e0)

\* a - b
f32_sub(a, b) == f32_add(a, [b EXCEPT !.m = -b.m])

\* a * b
f32_mul(a, b) == F32Round(Sign(a.m) * Sign(b.m), Abs(a.m) * Abs(b.m), a.e + b.e)

\* The least k with p * 2^k >= 2^24 * q.
RECURSIVE QuotientShift(_, _)
QuotientShift(p, q) == IF p >= 16777216 * q THEN 0 ELSE 1 + QuotientShift(2 * p, q)

\* a / b, for b # 0: a 25-bit quotient of the mantissas and its remainder decide the
\* rounding to 24 bits.
f32_div(a, b) ==
    IF a.m = 0 THEN a
    ELSE LET p == Abs(a.m)
             q == Abs(b.m)
             k == QuotientShift(p, q)
             n == (p * Pow2(k)) \div q
             rest == (p * Pow2(k)) % q
             sign == Sign(a.m) * Sign(b.m)
             e == a.e - b.e - k
         IN  IF rest = 0 THEN F32Round(sign, n, e)
             ELSE F32Round(sign, 2 * n + 1, e - 1)

\* `a.round() as i32`: to the nearest integer, halves away from zero; the cast saturates.
f32_round_as_i32(a) ==
    IF a.e = 0 THEN a.m
    ELSE IF a.e > 0
    THEN IF a.e > 30 \/ Abs(a.m) >= Pow2(31 - a.e)
         THEN (IF a.m < 0 THEN I32_MIN ELSE I32_MAX)
         ELSE a.m * Pow2(a.e)
    ELSE IF -a.e >= 25 THEN 0
    ELSE LET q == Abs(a.m) \div Pow2(-a.e)
             r == Abs(a.m) % Pow2(-a.e)
         IN  Sign(a.m) * (IF 2 * r >= Pow2(-a.e) THEN q + 1 ELSE q)

\* floor(|a| * 4096), for |a| < 2^19.
F32Floor4096(a) ==
    IF a.e + 12 >= 0 THEN Abs(a.m) * Pow2(a.e + 12) ELSE Abs(a.m) \div Pow2(-(a.e + 12))

----------------------------------------------------------------------------
(* Canvas::draw_square. *)

\* 1.4142135623 * 4096 * 1000, rounded: the divisor of line 195 on the scale of
\* F32Floor4096, in thousandths.
SQRT2_SCALED == 5792619

\* `((size as f64) / 1.4142135623).round() as f32`, as the integer it is.
rounded_radius(size) ==
    Sign(size.m) * ((2000 * F32Floor4096(size) + SQRT2_SCALED) \div (2 * SQRT2_SCALED))

\* The rotation angles the model draws squares with, in thousandths of a radian.
AngleSamples == {-600, -300, 0, 300, 600}

\* <<k.sin(), k.cos()>> in thousandths at the four corners, k = PI/4 + angle stepping
\* by PI/2 (lines 202-206).
CornerTrig(angle) ==
    CASE angle = -600 -> <<<<184, 983>>, <<983, -184>>, <<-184, -983>>, <<-983, 184>>>>
      [] angle = -300 -> <<<<467, 884>>, <<884, -467>>, <<-467, -884>>, <<-884, 467>>>>
      [] angle = 0    -> <<<<707, 707>>, <<707, -707>>, <<-707, -707>>, <<-707, 707>>>>
      [] angle = 300  -> <<<<884, 467>>, <<467, -884>>, <<-884, -467>>, <<-467, 884>>>>
      [] angle = 600  -> <<<<983, 184>>, <<184, -983>>, <<-983, -184>>, <<-184, 983>>>>

\* `.round()` of n / 1000: to the nearest integer, halves away from zero.
RoundMilli(n) == Sign(n) * ((2 * Abs(n) + 1000) \div 2000)

\* The four corners `points` (lines 199-207).
square_corners(x, y, size, angle) ==
    LET radius == rounded_radius(size)
        trig == CornerTrig(angle)
    IN  <<<<x + RoundMilli(trig[1][1] * radius), y + RoundMilli(trig[1][2] * radius)>>,
          <<x + RoundMilli(trig[2][1] * radius), y + RoundMilli(trig[2][2] * radius)>>,
          <<x + RoundMilli(trig[3][1] * radius), y + RoundMilli(trig[3][2] * radius)>>,
          <<x + RoundMilli(trig[4][1] * radius), y + RoundMilli(trig[4][2] * radius)>>>>

\* The lines j .. 4 that join each corner to the next (lines 211-215).
RECURSIVE SquareLines(_, _, _)
SquareLines(cv, points, j) ==
    IF j > 4 THEN cv
    ELSE LET p == points[j]
             q == points[(j % 4) + 1]
         IN  SquareLines(draw_line(cv, p[1], p[2], q[1], q[2], 1), points, j + 1)

\* Canvas::draw_square: the canvas after the call.
draw_square(cv, x, y, size, angle) == SquareLines(cv, square_corners(x, y, size, angle), 1)

----------------------------------------------------------------------------
(* Canvas::draw_schotter. *)

\* Whether `2 * console_cols` leaves i32.
doubling_overflows_i32(n) == n > 1073741823 \/ n < -1073741824

\* `2 * console_cols` modulo 2^32, as an i32 (what a release build computes).
wrapping_double_i32(n) ==
    IF n > 1073741823 THEN ((2 * (n - 1073741824)) - 1073741824) - 1073741824
    ELSE IF n < -1073741824 THEN ((2 * (n + 1073741824)) + 1073741824) + 1073741824
    ELSE 2 * n

\* needed_width, padding, square_side and needed_height (lines 228-233), given the
\* value of needed_width.
schotter_layout(needed_width, squares_per_row, squares_per_col) ==
    LET padding == IF needed_width > 4 THEN f32_from_i32(2) ELSE f32_from_i32(0)
        two_padding == f32_mul(f32_from_i32(2), padding)
        square_side == f32_div(f32_sub(f32_from_i32(needed_width), two_padding),
                               f32_from_i32(squares_per_row))
    IN  [needed_width |-> needed_width,
         padding |-> padding,
         square_side |-> square_side,
         needed_height |-> f32_round_as_i32(
             f32_add(f32_mul(square_side, f32_from_i32(squares_per_col)), two_padding))]

\* `(i as f32 * square_side + square_side/2.0 + padding).round() as i32` (lines 251-254).
square_base(lay, i) ==
    f32_round_as_i32(
        f32_add(f32_add(f32_mul(f32_from_i32(i), lay.square_side),
                        f32_div(lay.square_side, f32_from_i32(2))),
                lay.padding))

\* The largest |(r * square_side / 3.0).round()| that a random r with |r| <= factor
\* gives, factor = (y + 1) / (squares_per_col + 1) (lines 249, 259-267).
max_offset(lay, y, squares_per_col) ==
    (2 * (y + 1) * F32Floor4096(lay.square_side) + 3 * (squares_per_col + 1) * 4096)
        \div (2 * 3 * (squares_per_col + 1) * 4096)

\* The random part of one square of row y: the angle r1 (a sample with |r1| <= factor)
\* and the two offsets added to sx and sy.
SquareChoices(lay, y, squares_per_col) ==
    {a \in AngleSamples : Abs(a) * (squares_per_col + 1) <= 1000 * (y + 1)}
        \X (-max_offset(lay, y, squares_per_col)..max_offset(lay, y, squares_per_col))
        \X (-max_offset(lay, y, squares_per_col)..max_offset(lay, y, squares_per_col))

\* The canvases that the loops of lines 246-270 can leave, from square number i on
\* (squares are numbered row by row, left to right, from 0).
RECURSIVE SchotterOutcomes(_, _, _, _, _)
SchotterOutcomes(cv, lay, squares_per_row, squares_per_col, i) ==
    IF i >= squares_per_row * squares_per_col THEN {cv}
    ELSE LET y == i \div squares_per_row
             x == i % squares_per_row
         IN  UNION {SchotterOutcomes(
                        draw_square(cv, square_base(lay, x) + ch[2], square_base(lay, y) + ch[3],
                                    lay.square_side, ch[1]),
                        lay, squares_per_row, squares_per_col, i + 1)
                    : ch \in SquareChoices(lay, y, squares_per_col)}

\* The size test of lines 235-236.
too_small(cv, lay) == lay.needed_width > cv.width \/ lay.needed_height > cv.height

----------------------------------------------------------------------------
(* The Braille encoder: translate_pixels_group and Canvas::render. *)

\* Bitwise `|` and `&` on bytes.
RECURSIVE BitOr(_, _)
BitOr(a, b) ==
    IF a = 0 THEN b ELSE IF b = 0 THEN a
    ELSE (IF a % 2 = 1 \/ b % 2 = 1 THEN 1 ELSE 0) + 2 * BitOr(a \div 2, b \div 2)

RECURSIVE BitAnd(_, _)
BitAnd(a, b) ==
    IF a = 0 \/ b = 0 THEN 0
    ELSE (IF a % 2 = 1 /\ b % 2 = 1 THEN 1 ELSE 0) + 2 * BitAnd(a \div 2, b \div 2)

\* `v as u8`: the low eight bits.
as_u8(v) == v % 256

\* U+2800 BRAILLE PATTERN BLANK, the first of the 256 patterns.
BRAILLE_BASE == 10240

\* '☂' (U+2602), what unwrap_or falls back to when the string holds no character.
FALLBACK_CHAR == 9730

\* '\n'
LINE_BREAK == 10

\* A faulty encoder: the middle byte takes `code >> 7` in place of `code >> 6`.
braille_utf8_shift7(byte) ==
    LET code == BRAILLE_BASE + byte
    IN  <<BitOr(224, as_u8(code \div 4096)),
          BitOr(128, BitAnd(as_u8(code \div 128), 63)),
          BitOr(128, BitAnd(as_u8(code), 63))>>

\* The three bytes `out` that translate_pixels_group builds (lines 332-337).
braille_utf8(byte) ==
    LET code == BRAILLE_BASE + byte
    IN  <<BitOr(224, as_u8(code \div 4096)),
          BitOr(128, BitAnd(as_u8(code \div 64), 63)),
          BitOr(128, BitAnd(as_u8(code), 63))>>

\* A byte 10xx_xxxx.
IsContinuation(b) == 128 <= b /\ b <= 191

\* What str::chars() yields first on these bytes: the code point of the first UTF-8
\* sequence.  On bytes that are not well-formed UTF-8, from_utf8_unchecked is undefined
\* behaviour; MALFORMED stands for it.
MALFORMED == -1

utf8_first_char(bytes) ==
    IF Len(bytes) = 0 THEN FALLBACK_CHAR
    ELSE IF bytes[1] < 128 THEN bytes[1]
    ELSE IF /\ 194 <= bytes[1] /\ bytes[1] <= 223 /\ Len(bytes) >= 2
            /\ IsContinuation(bytes[2])
         THEN (bytes[1] % 32) * 64 + (bytes[2] % 64)
    ELSE IF /\ 224 <= bytes[1] /\ bytes[1] <= 239 /\ Len(bytes) >= 3
            /\ IsContinuation(bytes[2]) /\ IsContinuation(bytes[3])
            /\ (bytes[1] % 16) * 4096 + (bytes[2] % 64) * 64 >= 2048
         THEN (bytes[1] % 16) * 4096 + (bytes[2] % 64) * 64 + (bytes[3] % 64)
    ELSE MALFORMED

\* translate_pixels_group(byte): the character, as its code point.
translate_pixels_group(byte) == utf8_first_char(braille_utf8(byte))

\* (0..end).step_by(step), as the sequence of values it yields.
RECURSIVE StepBy(_, _, _)
StepBy(from, end, step) ==
    IF from >= end THEN <<>> ELSE <<from>> \o StepBy(from + step, end, step)

\* A faulty sampling order: row by row, as if the eight dots were numbered in reading
\* order.
TileOffsets_rows == <<<<0, 0>>, <<1, 0>>, <<0, 1>>, <<1, 1>>, <<0, 2>>, <<1, 2>>, <<0, 3>>, <<1, 3>>>>

\* The (dx, dy) sampled for bit 0, 1, ..., 7 of a tile's byte (lines 294-301).
TileOffsets == <<<<0, 0>>, <<0, 1>>, <<0, 2>>, <<1, 0>>, <<1, 1>>, <<1, 2>>, <<0, 3>>, <<1, 3>>>>

\* The bits k .. 7 of the byte of the tile at (x, y): `byte |= 1 << k` for each lit sample.
RECURSIVE TileBits(_, _, _, _)
TileBits(cv, x, y, k) ==
    IF k > 7 THEN 0
    ELSE (IF get_pixel(cv, x + TileOffsets[k + 1][1], y + TileOffsets[k + 1][2]) # 0
          THEN Pow2(k) ELSE 0) + TileBits(cv, x, y, k + 1)

\* The glyphs of one row of tiles, then the line break.
RECURSIVE RenderRow(_, _, _)
RenderRow(cv, xs, y) ==
    IF xs = <<>> THEN <<LINE_BREAK>>
    ELSE <<translate_pixels_group(TileBits(cv, Head(xs), y, 0))>> \o RenderRow(cv, Tail(xs), y)

RECURSIVE RenderRows(_, _)
RenderRows(cv, ys) ==
    IF ys = <<>> THEN <<>>
    ELSE RenderRow(cv, StepBy(0, cv.width, 2), Head(ys)) \o RenderRows(cv, Tail(ys))

\* Canvas::render: the string, as the sequence of its characters' code points.
render(cv) == RenderRows(cv, StepBy(0, cv.height, 4))

----------------------------------------------------------------------------
(* Sample inputs. *)

\* Pixel values written by the drawing calls: off, on, and a byte that is neither.
ColorSamples == {0, 1, 255}

\* Coordinates around and inside the small canvases.
CoordSamples == -1..MaxCoord

\* Arguments of create: every small size, and sizes whose product or whose cast to i32
\* leaves the type (their wrapped pixel count is small enough to allocate in the model).
SmallDims == {<<U32(w), U32(h)>> : w \in 0..MaxDim, h \in 0..MaxDim}
WideDims == {<<U32_65536, U32_65536>>, <<U32_2POW31, U32(2)>>,
             <<U32_2POW31, U32(0)>>, <<U32(0), U32_2POW31>>}

\* End points of the lines drawn in Spec.
LineEnds == (-1..MaxDim) \X (0..1)

\* Fewer than MaxWrites pixels of cv differ from a cleared canvas, or from a filled one.
NearUniform(cv) ==
    \/ Cardinality({i \in 1..Len(cv.pixels) : cv.pixels[i] # 0}) < MaxWrites
    \/ Cardinality({i \in 1..Len(cv.pixels) : cv.pixels[i] # 1}) < MaxWrites

----------------------------------------------------------------------------
(* Actions: one per public operation. *)

Call(name, args) == [name |-> name, a |-> args]

Init ==
    /\ pc = "start"
    /\ canvas = NoCanvas
    /\ req = <<U32(0), U32(0)>>
    /\ op = Call("none", <<>>)
    /\ ret = "none"
    /\ ln = <<>>

\* Canvas::create(width, height).  When `width * height` leaves u32, a build with
\* overflow checks (debug) panics and a build without (release) wraps: either may happen.
Create(width, height) ==
    /\ pc = "start"
    /\ op' = Call("create", <<width, height>>)
    /\ req' = <<width, height>>
    /\ \/ /\ mul_overflows_u32(width, height)
          /\ pc' = "panic"
          /\ ret' = "panic"
          /\ UNCHANGED canvas
       \/ /\ pc' = "ready"
          /\ ret' = "Ok"
          /\ canvas' = [pixels |-> [i \in 1..as_usize(wrapping_mul_u32(width, height)) |-> 0],
                        width  |-> as_i32(width),
                        height |-> as_i32(height)]
    /\ UNCHANGED ln

\* Canvas::clear / Canvas::fill: `&mut self.pixels[0]` is a bounds-checked index, which
\* panics on an empty Vec before write_bytes runs.
Memset(name, byte) ==
    /\ pc = "ready"
    /\ op' = Call(name, <<>>)
    /\ IF Len(canvas.pixels) = 0
       THEN /\ pc' = "panic"
            /\ ret' = "panic"
            /\ UNCHANGED canvas
       ELSE /\ canvas' = write_bytes(canvas, byte)
            /\ ret' = "unit"
            /\ UNCHANGED pc
    /\ UNCHANGED <<req, ln>>

Clear == Memset("clear", 0)

Fill == Memset("fill", 1)

\* Canvas::get_pixel(x, y)
GetPixel(x, y) ==
    /\ pc = "ready"
    /\ op' = Call("get_pixel", <<x, y>>)
    /\ ret' = get_pixel(canvas, x, y)
    /\ UNCHANGED <<pc, canvas, req, ln>>

\* Canvas::draw_pixel(x, y, color)
DrawPixel(x, y, color) ==
    /\ pc = "ready"
    /\ op' = Call("draw_pixel", <<x, y, color>>)
    /\ canvas' = draw_pixel(canvas, x, y, color)
    /\ ret' = "unit"
    /\ UNCHANGED <<pc, req, ln>>

\* Canvas::draw_line(x1, y1, x2, y2, color), as one step.
DrawLine(x1, y1, x2, y2, color) ==
    /\ pc = "ready"
    /\ op' = Call("draw_line", <<x1, y1, x2, y2, color>>)
    /\ canvas' = draw_line(canvas, x1, y1, x2, y2, color)
    /\ ret' = "unit"
    /\ UNCHANGED <<pc, req, ln>>

\* Canvas::draw_line, entered: the locals are set up and the loop is about to run.
LineBegin(x1, y1, x2, y2, color) ==
    /\ pc = "ready"
    /\ op' = Call("draw_line", <<x1, y1, x2, y2, color>>)
    /\ ln' = LineStart(canvas, x1, y1, x2, y2, color)
    /\ pc' = "line"
    /\ ret' = "running"
    /\ UNCHANGED <<canvas, req>>

\* One iteration of draw_line's loop: plot, then break or advance.
LineIter ==
    /\ pc = "line"
    /\ canvas' = draw_pixel(canvas, ln.x, ln.y, ln.color)
    /\ IF LineAtEnd(ln)
       THEN /\ ln' = LinePlot(ln)
            /\ pc' = "ready"
            /\ ret' = "unit"
       ELSE /\ ln' = LineAdvance(LinePlot(ln))
            /\ UNCHANGED <<pc, ret>>
    /\ UNCHANGED <<req, op>>

\* Canvas::render().  Canvases wider or taller than MaxRenderSpan are not rendered
\* in the model.
Render ==
    /\ pc = "ready"
    /\ canvas.width <= MaxRenderSpan
    /\ canvas.height <= MaxRenderSpan
    /\ op' = Call("render", <<>>)
    /\ ret' = render(canvas)
    /\ UNCHANGED <<pc, canvas, req, ln>>

\* translate_pixels_group(byte), called on its own.
Translate(byte) ==
    /\ op' = Call("translate_pixels_group", <<byte>>)
    /\ ret' = translate_pixels_group(byte)
    /\ UNCHANGED <<pc, canvas, req, ln>>

\* Canvas::draw_square(x, y, size, angle), size an integer and angle a sample.
DrawSquare(x, y, size, angle) ==
    /\ pc = "ready"
    /\ op' = Call("draw_square", <<x, y, size, angle>>)
    /\ canvas' = draw_square(canvas, x, y, f32_from_i32(size), angle)
    /\ ret' = "unit"
    /\ UNCHANGED <<pc, req, ln>>

\* Canvas::draw_schotter(console_cols, squares_per_row, squares_per_col).  When
\* `2 * console_cols` leaves i32, a build with overflow checks panics and a build
\* without wraps.  `random_calls` counts the calls of random() the call made.  Squares
\* with a side above MaxSide are not drawn in the model.
DrawSchotter(console_cols, squares_per_row, squares_per_col) ==
    /\ pc = "ready"
    /\ op' = Call("draw_schotter", <<console_cols, squares_per_row, squares_per_col>>)
    /\ \/ /\ doubling_overflows_i32(console_cols)
          /\ pc' = "panic"
          /\ ret' = "panic"
          /\ UNCHANGED canvas
       \/ \E lay \in {schotter_layout(wrapping_double_i32(console_cols),
                                       squares_per_row, squares_per_col)} :
              IF too_small(canvas, lay)
              THEN /\ ret' = [result |-> "CanvasTooSmall",
                              needed_width |-> lay.needed_width,
                              needed_height |-> lay.needed_height,
                              actual_width |-> canvas.width,
                              actual_height |-> canvas.height,
                              random_calls |-> 0]
                   /\ UNCHANGED <<pc, canvas>>
              ELSE /\ \/ squares_per_row * squares_per_col <= 0
                      \/ /\ -MaxSide <= f32_round_as_i32(lay.square_side)
                         /\ f32_round_as_i32(lay.square_side) <= MaxSide
                   /\ canvas' \in SchotterOutcomes(canvas, lay, squares_per_row,
                                                   squares_per_col, 0)
                   /\ ret' = [result |-> "Ok",
                              random_calls |-> IF squares_per_row * squares_per_col > 0
                                               THEN 6 * squares_per_row * squares_per_col
                                               ELSE 0]
                   /\ UNCHANGED pc
    /\ UNCHANGED <<req, ln>>

Next ==
    \/ \E d \in SmallDims \cup WideDims : Create(d[1], d[2])
    \/ Clear
    \/ Fill
    \/ \E x \in CoordSamples, y \in CoordSamples : GetPixel(x, y)
    \/ \E x \in CoordSamples, y \in CoordSamples, c \in ColorSamples : DrawPixel(x, y, c)
    \/ \E p \in LineEnds, q \in LineEnds : DrawLine(p[1], p[2], q[1], q[2], 1)
    \/ Render
    \/ \E y \in 0..1, size \in 1..MaxDim, a \in {0, 300} : DrawSquare(1, y, size, a)
    \/ \E cols \in 0..1, rows \in 0..1 : DrawSchotter(cols, 1, rows)

Spec == Init /\ [][Next]_vars

----------------------------------------------------------------------------
(* SpecPixel: create, clear, fill, draw_pixel and get_pixel alone, on canvases that
   hold a few pixels set or (after fill) a few pixels changed. *)

NextPixel ==
    \/ \E d \in SmallDims \cup WideDims : Create(d[1], d[2])
    \/ Clear
    \/ Fill
    \/ /\ NearUniform(canvas)
       /\ \E x \in CoordSamples, y \in CoordSamples, c \in ColorSamples : DrawPixel(x, y, c)
    \/ \E x \in CoordSamples, y \in CoordSamples : GetPixel(x, y)

SpecPixel == Init /\ [][NextPixel]_vars

----------------------------------------------------------------------------
(* Claims about create, clear, fill and the pixel accessors, under Spec and
   SpecPixel. *)

\* (x, y) lies in the rectangle [0, width) x [0, height) of cv.
InRect(cv, x, y) == 0 <= x /\ x < cv.width /\ 0 <= y /\ y < cv.height

\* The pixel (x, y) of cv read straight from the buffer, rows of `width` bytes.
StoredPixel(cv, x, y) == cv.pixels[x + y * cv.width + 1]

\* C1: on every canvas, for every (x, y) with 0 <= x < width and 0 <= y < height and
\* every byte v, get_pixel(x, y) right after draw_pixel(x, y, v) returns v.
C1_RoundTrip ==
    (op.name = "draw_pixel" /\ InRect(canvas, op.a[1], op.a[2])) =>
        get_pixel(canvas, op.a[1], op.a[2]) = op.a[3]

\* A draw_pixel step outside the rectangle changes neither the pixels nor the
\* dimensions, and does not panic.
OutsideDrawIgnored ==
    (op'.name = "draw_pixel" /\ ~InRect(canvas, op'.a[1], op'.a[2])) =>
        /\ canvas' = canvas
        /\ pc' = "ready"

\* A get_pixel outside the rectangle has returned 0.
OutsideReadsOff ==
    (op.name = "get_pixel" /\ ~InRect(canvas, op.a[1], op.a[2])) => ret = 0

\* C2: for every (x, y) outside [0, width) x [0, height), negative coordinates
\* included, draw_pixel(x, y, v) leaves every stored pixel and the dimensions unchanged
\* and does not fail, and get_pixel(x, y) returns 0 whatever the canvas holds.
C2_OutOfBounds ==
    /\ [][OutsideDrawIgnored]_vars
    /\ []OutsideReadsOff

\* C2 happens: draw_pixel(-1, 1, 255) has run on a canvas of two rows or more whose
\* pixels are all set, and they still are.
C2_Witness ==
    /\ op.name = "draw_pixel"
    /\ op.a = <<-1, 1, 255>>
    /\ canvas.width >= 2 /\ canvas.height >= 2
    /\ Len(canvas.pixels) >= 4
    /\ \A i \in 1..Len(canvas.pixels) : canvas.pixels[i] = 1

\* C9: the canvas that create(width, height) returned holds at least width * height
\* pixel bytes, the product taken without 32-bit wrap-around, and its stored width and
\* height are the requested ones; so it stays after any sequence of clear, fill,
\* draw_pixel, draw_line, draw_square and draw_schotter.
C9_BufferCoversCanvas ==
    pc = "ready" =>
        /\ ~mul_overflows_u32(req[1], req[2])
        /\ Len(canvas.pixels) >= as_usize(wrapping_mul_u32(req[1], req[2]))
        /\ canvas.width >= 0 /\ U32(canvas.width) = req[1]
        /\ canvas.height >= 0 /\ U32(canvas.height) = req[2]

\* C10: on every canvas that create returned, one of width 0 or height 0 included,
\* clear() completes and leaves every stored pixel 0, fill() completes and leaves every
\* stored pixel 1, so that get_pixel reads 1 wherever (x, y) is in bounds; the width,
\* the height and the number of stored pixels are those create set.
C10_MemsetCompletes ==
    op.name \in {"clear", "fill"} =>
        /\ pc = "ready"
        /\ \A i \in 1..Len(canvas.pixels) :
               canvas.pixels[i] = IF op.name = "fill" THEN 1 ELSE 0
        /\ op.name = "fill" =>
               \A x \in CoordSamples, y \in CoordSamples :
                   InRect(canvas, x, y) => get_pixel(canvas, x, y) = 1
        /\ canvas.width = as_i32(req[1])
        /\ canvas.height = as_i32(req[2])
        /\ Len(canvas.pixels) = as_usize(wrapping_mul_u32(req[1], req[2]))

----------------------------------------------------------------------------
(* SpecGlyph: translate_pixels_group on every byte. *)

NextGlyph == \E b \in 0..255 : Translate(b)

SpecGlyph == Init /\ [][NextGlyph]_vars

\* C3: for every byte b in 0..255, translate_pixels_group(b) returns the character
\* whose code point is 0x2800 + b: its three bytes are a well-formed UTF-8 sequence
\* that decodes to that code point, no other byte gives the same character (with the
\* range U+2800..U+28FF of 256 characters, a bijection), and the fallback character is
\* never returned.
C3_BrailleBijection ==
    op.name = "translate_pixels_group" =>
        LET b == op.a[1]
            out == braille_utf8(b)
        IN  /\ ret = BRAILLE_BASE + b
            /\ BRAILLE_BASE <= ret /\ ret <= BRAILLE_BASE + 255
            /\ ret # FALLBACK_CHAR /\ ret # MALFORMED
            /\ out[1] = 226 /\ IsContinuation(out[2]) /\ IsContinuation(out[3])
            /\ (out[1] - 224) * 4096 + (out[2] - 128) * 64 + (out[3] - 128) = ret
            /\ \A other \in 0..255 : translate_pixels_group(other) = ret => other = b

\* C3 happens: translate_pixels_group(255) has returned U+28FF, the last pattern.
C3_Witness ==
    /\ op.name = "translate_pixels_group"
    /\ op.a = <<255>>
    /\ ret = 10495

----------------------------------------------------------------------------
(* SpecRender: render on canvases of several tiles, whole and partial, holding a few
   pixels set or (after fill) a few pixels cleared. *)

RenderDims == {<<U32(w), U32(h)>> : w \in 0..MaxRenderWidth, h \in 0..MaxRenderHeight}
                 \cup {<<U32_2POW31, U32(0)>>, <<U32(0), U32_2POW31>>, <<U32_2POW31, U32(2)>>}

NextRender ==
    \/ \E d \in RenderDims : Create(d[1], d[2])
    \/ Fill
    \/ /\ NearUniform(canvas)
       /\ \E x \in 0..MaxRenderWidth, y \in 0..MaxRenderHeight, c \in {0, 255} :
              DrawPixel(x, y, c)
    \/ Render

SpecRender == Init /\ [][NextRender]_vars

----------------------------------------------------------------------------
(* Claims about render, under SpecRender. *)

\* 1 when the canvas stores a nonzero byte for (x, y), 0 when it stores zero or (x, y)
\* is outside the canvas.
Lit(x, y) ==
    IF InRect(canvas, x, y) /\ x + y * canvas.width < Len(canvas.pixels)
       /\ StoredPixel(canvas, x, y) # 0
    THEN 1 ELSE 0

\* The byte C4 gives the tile whose top-left pixel is (x, y).
TileByte(x, y) ==
    Lit(x, y) + 2 * Lit(x, y + 1) + 4 * Lit(x, y + 2)
        + 8 * Lit(x + 1, y) + 16 * Lit(x + 1, y + 1) + 32 * Lit(x + 1, y + 2)
        + 64 * Lit(x, y + 3) + 128 * Lit(x + 1, y + 3)

\* ceil(n / d) for n >= 0.
CeilDiv(n, d) == (n + d - 1) \div d

\* C4: in the string render returned, the glyph of the tile whose top-left pixel is
\* (x, y) has code point 0x2800 + byte, where bits 0..7 of byte say whether the pixels
\* (x,y), (x,y+1), (x,y+2), (x+1,y), (x+1,y+1), (x+1,y+2), (x,y+3), (x+1,y+3) hold a
\* nonzero value; a sample outside the canvas, in a trailing partial tile, counts as off
\* and render does not fail on it.
C4_TileGlyph ==
    op.name = "render" =>
        /\ pc = "ready"
        /\ \A tx \in 0..(CeilDiv(canvas.width, 2) - 1), ty \in 0..(CeilDiv(canvas.height, 4) - 1) :
               LET at == ty * (CeilDiv(canvas.width, 2) + 1) + tx + 1
               IN  /\ at <= Len(ret)
                   /\ ret[at] = BRAILLE_BASE + TileByte(2 * tx, 4 * ty)

\* C4 happens: render has run on a canvas 3 wide and 5 high whose only lit pixel is
\* (2, 4), the corner of the last partial tile, and the last glyph shows dot 0 alone.
C4_Witness ==
    /\ op.name = "render"
    /\ canvas.width = 3 /\ canvas.height = 5
    /\ \A i \in 1..Len(canvas.pixels) : (canvas.pixels[i] # 0) <=> (i = 15)
    /\ ret[5] = BRAILLE_BASE + 1
    /\ ret[2] = BRAILLE_BASE

\* ceil(h / 4) and ceil(w / 2) of a u32 given by its limbs.
QuarterUp(u) == u[4] * 4194304 + u[3] * 16384 + u[2] * 64 + ((u[1] + 3) \div 4)
HalfUp(u) == u[4] * 8388608 + u[3] * 32768 + u[2] * 128 + ((u[1] + 1) \div 2)

\* The string render returned has ceil(h/4) lines of ceil(w/2) glyphs and a line break
\* each, w and h being the width and height the canvas was created with; the glyphs are
\* those of the tiles taken top to bottom and left to right from (0, 0), x by 2, y by 4.
RenderShape ==
    op.name = "render" =>
        LET rows == QuarterUp(req[2])
            cols == HalfUp(req[1])
        IN  /\ Len(ret) = rows * (cols + 1)
            /\ \A at \in 1..Len(ret) : (ret[at] = LINE_BREAK) <=> (at % (cols + 1) = 0)
            /\ \A at \in 1..Len(ret) :
                   ret[at] # LINE_BREAK =>
                       ret[at] = translate_pixels_group(
                           TileBits(canvas, 2 * ((at - 1) % (cols + 1)),
                                    4 * ((at - 1) \div (cols + 1)), 0))

\* C5: for every canvas of width w and height h, render returns exactly ceil(h/4)
\* lines, each of exactly ceil(w/2) glyphs followed by one line break, the tiles visited
\* top to bottom and left to right from (0, 0), x by 2 and y by 4; and render leaves
\* the canvas unchanged.
C5_RenderShape ==
    /\ []RenderShape
    /\ [][op'.name = "render" => canvas' = canvas]_vars


----------------------------------------------------------------------------
(* SpecLine: one draw_line call, followed iteration by iteration, on a canvas that is
   fresh or filled.  The loop has no suspension point, so an iteration that can run
   does run: SpecLineFair states that as weak fairness of LineIter. *)

LineDims == {<<U32(w), U32(h)>> : w \in 0..MaxLineWidth, h \in 0..MaxLineHeight}
               \cup {<<U32_65536, U32_65536>>}

LinePoints == (-1..MaxLineX) \X (-1..MaxLineY)

NextLine ==
    \/ \E d \in LineDims : Create(d[1], d[2])
    \/ op.name = "create" /\ Fill
    \/ /\ op.name # "draw_line"
       /\ \E p \in LinePoints, q \in LinePoints, c \in {0, 255} :
              LineBegin(p[1], p[2], q[1], q[2], c)
    \/ LineIter

SpecLine == Init /\ [][NextLine]_vars

SpecLineFair == Init /\ [][NextLine]_vars /\ WF_vars(LineIter)

----------------------------------------------------------------------------
(* Claims about draw_line. *)

\* draw_line has been entered (and may have returned): `ln` holds its locals.
InLine == op.name = "draw_line" /\ pc \in {"line", "ready"}

\* draw_line has returned.
LineReturned == op.name = "draw_line" /\ pc = "ready"

\* One iteration that does not break moves the current point towards (x2, y2): neither
\* axis gets farther from its target, and at least one gets closer.
LineStepsCloser ==
    (pc = "line" /\ pc' = "line") =>
        /\ Abs(ln'.x2 - ln'.x) <= Abs(ln.x2 - ln.x)
        /\ Abs(ln'.y2 - ln'.y) <= Abs(ln.y2 - ln.y)
        /\ \/ Abs(ln'.x2 - ln'.x) < Abs(ln.x2 - ln.x)
           \/ Abs(ln'.y2 - ln'.y) < Abs(ln.y2 - ln.y)

\* The first point plotted is (x1, y1); once draw_line has returned, the last is (x2, y2).
LineEndsPlotted ==
    InLine =>
        /\ ln.plotted # <<>> => ln.plotted[1] = <<op.a[1], op.a[2]>>
        /\ ln.plotted = <<>> => <<ln.x, ln.y>> = <<op.a[1], op.a[2]>>
        /\ LineReturned => ln.plotted[Len(ln.plotted)] = <<op.a[3], op.a[4]>>

\* C6: for all end points, in the canvas or not, draw_line's loop terminates; it plots
\* (x1, y1) first, every iteration that does not break moves the current point closer to
\* (x2, y2) in at least one axis and overshoots in neither, and the last point plotted
\* is (x2, y2).
C6_LineTerminates ==
    /\ []LineEndsPlotted
    /\ [][LineStepsCloser]_vars
    /\ (pc = "line") ~> (pc = "ready")

\* C6 happens: a slanted line that starts outside the canvas has run to its end over
\* at least three iterations.
C6_Witness ==
    /\ LineReturned
    /\ Len(ln.plotted) >= 3
    /\ op.a[1] # op.a[3] /\ op.a[2] # op.a[4]
    /\ index(canvas, op.a[1], op.a[2]) = None
    /\ canvas.width > 0

\* The points of the row segment from (x1, y) to (x2, y), end points included.
RowSegment(x1, x2, y) ==
    {<<x, y>> : x \in (IF x1 < x2 THEN x1 ELSE x2)..(IF x1 < x2 THEN x2 ELSE x1)}

\* The buffer offsets that the plotted points address (the pixels the call wrote).
WrittenOffsets == {index(ln.entry, pt[1], pt[2]) : pt \in {ln.plotted[k] : k \in 1..Len(ln.plotted)}} \ {None}

\* The canvas holds `color` at the written offsets and its entry value everywhere else.
OnlyWrittenChanged ==
    /\ canvas.width = ln.entry.width
    /\ canvas.height = ln.entry.height
    /\ Len(canvas.pixels) = Len(ln.entry.pixels)
    /\ \A i \in 1..Len(canvas.pixels) :
           canvas.pixels[i] = IF (i - 1) \in WrittenOffsets THEN ln.color ELSE ln.entry.pixels[i]

----------------------------------------------------------------------------
(* SpecSchotter: one draw_schotter (or draw_square) call on a canvas that is fresh or
   filled. *)

SchotterDims == {<<U32(w), U32(h)>> : w \in 0..MaxSchotterDim, h \in 0..MaxSchotterDim}

\* 2^30, the least console_cols whose double leaves i32.
COLS_2POW30 == 1073741824

NextSchotter ==
    \/ \E d \in SchotterDims : Create(d[1], d[2])
    \/ op.name = "create" /\ Fill
    \/ /\ op.name \in {"create", "fill"}
       /\ \E x \in 0..MaxSquares, y \in 0..MaxSquares, size \in 0..MaxSchotterDim,
             a \in AngleSamples : DrawSquare(x, y, size, a)
    \/ /\ op.name \in {"create", "fill"}
       /\ \E cols \in (0..MaxCols) \cup {COLS_2POW30},
             per_row \in 1..MaxSquares, per_col \in 0..MaxSquares :
              DrawSchotter(cols, per_row, per_col)

SpecSchotter == Init /\ [][NextSchotter]_vars

\* The canvas is narrower than 2 * console_cols (compared without computing the
\* double, which may not fit i32).
TooNarrow(cv, console_cols) == cv.width \div 2 < console_cols

\* The canvas is lower than the needed_height computed from 2 * console_cols.
TooLow(cv, console_cols, squares_per_row, squares_per_col) ==
    /\ ~doubling_overflows_i32(console_cols)
    /\ cv.height < schotter_layout(2 * console_cols, squares_per_row, squares_per_col).needed_height

\* draw_schotter, called on a canvas too narrow or too low, has returned CanvasTooSmall
\* with the four sizes, and has drawn no random value.
SmallCanvasRefused ==
    (/\ op.name = "draw_schotter"
     /\ \/ TooNarrow(canvas, op.a[1])
        \/ TooLow(canvas, op.a[1], op.a[2], op.a[3])) =>
        /\ pc = "ready"
        /\ ret.result = "CanvasTooSmall"
        /\ ret.actual_width = canvas.width
        /\ ret.actual_height = canvas.height
        /\ ~doubling_overflows_i32(op.a[1]) =>
               /\ ret.needed_width = 2 * op.a[1]
               /\ ret.needed_height = schotter_layout(2 * op.a[1], op.a[2], op.a[3]).needed_height
        /\ ret.random_calls = 0

\* A draw_schotter step on a canvas too narrow or too low changes no pixel.
SmallCanvasUntouched ==
    (/\ op'.name = "draw_schotter"
     /\ \/ TooNarrow(canvas, op'.a[1])
        \/ TooLow(canvas, op'.a[1], op'.a[2], op'.a[3])) =>
        canvas' = canvas

\* C8: draw_schotter returns CanvasTooSmall with needed_width, needed_height,
\* actual_width and actual_height whenever the canvas is narrower than needed_width =
\* 2 * console_cols or lower than the computed needed_height; the test comes before the
\* first draw_square, so on this error no pixel has changed and no random value has
\* been drawn.
C8_TooSmallFirst ==
    /\ []SmallCanvasRefused
    /\ [][SmallCanvasUntouched]_vars

====
